---- MODULE Spec2Model ----
(***************************************************************************)
(* Model of src/app/page.tsx: the AudioPlayer class (audio context,        *)
(* output route, single buffer source) and the Home component's handlers   *)
(* (play / stop, output selection, microphone recording).                  *)
(*                                                                         *)
(* Execution is one event loop.  Every handler runs to its next await;     *)
(* each await (setSinkId, fetch, arrayBuffer, decodeAudioData,             *)
(* getUserMedia) is a suspension point at which any other event may run.   *)
(* Platform objects are modelled by the part of their contract the code    *)
(* relies on:                                                              *)
(*  - AudioBufferSourceNode: start() makes it audible; stop() silences it  *)
(*    at once; the "ended" event is delivered later, in a task of its own, *)
(*    both after stop() and after the buffer has played to its end;        *)
(*    stop() on a node no longer playing has no effect.                    *)
(*  - MediaRecorder: start() sets state "recording"; stop() sets state     *)
(*    "inactive" at once and queues ONE task that fires dataavailable with *)
(*    the data gathered so far and then stop.  SpecRecording also lets the *)
(*    platform deliver dataavailable while recording (the handler appends  *)
(*    whatever arrives); SpecRecordingStopOnly does not.                   *)
(***************************************************************************)
EXTENDS Integers, Sequences, FiniteSets

\* ---- bounds of the model ----
MaxPlays == 3      \* play() calls issued in one run
MaxRoutes == 2     \* init(deviceId) calls with a non-empty device id
NumDevices == 3    \* output devices listed by the platform
MaxRoutingPlays == 2  \* play() calls issued in one run of SpecRouting
MaxRecs == 3       \* recording start() calls issued in one run
MaxFrags == 1      \* dataavailable events delivered while a recorder records
MaxSessionCalls == 3   \* play(), init(deviceId) and recording start() calls,
                       \* taken together, in a run of both sessions

PlayIds == 1..MaxPlays
RouteIds == 1..MaxRoutes
Devices == 1..NumDevices
RecIds == 1..MaxRecs

VARIABLES
  mounted,          \* Home has been mounted (its effects have run once)
  audioContext,     \* AudioPlayer.audioContext # null
  ctxCreated,       \* number of AudioContext objects constructed
  audioSource,      \* AudioPlayer.audioSource: 0 = null, else a node id
  destination,      \* AudioPlayer.destination: 0 = null, else a route id
  routeSt,          \* per route: "none" | "binding" | "bound" | "failed"
  routeDev,         \* per route: the device id its Audio element is bound to
  destBefore,       \* per route: this.destination when the init() that made it began
  nextRoute,        \* next unused route id
  selectedOutput,   \* Home.selectedOutput: 0 = "" (Default Output)
  pc,               \* per play call: position inside playAudio
  node,             \* per play call: state of the node it created
  out,              \* per node: -1 unconnected, 0 context.destination, r route
  onended,          \* per node: Home's onended handler is installed
  notified,         \* per node: number of times the onended handler ran
  priorSource,      \* per play call: this.audioSource when it was called
  stopToggle,       \* flips each time handleStopClick is called
  stopDuring,       \* per play call: stop() ran while it was suspended and
                    \*   no play() was issued since
  nextPlay,         \* next unused play-call id
  audioSourceRef,   \* Home.audioSourceRef.current: 0 = null
  isPlaying,        \* Home.isPlaying
  pendingStarts,    \* handleStartRecording calls suspended in getUserMedia
  startsIssued,     \* handleStartRecording calls issued so far
  recSt,            \* per recorder: "none" | "recording" | "stopping" | "inactive"
  nextRec,          \* next unused recorder id
  fragCount,        \* per recorder: fragments its capture unit has delivered
  streamLive,       \* per recorder: the MediaStream it was given has live tracks
  mediaRecorderRef, \* Home.mediaRecorderRef.current: 0 = null
  audioChunks,      \* Home.audioChunksRef.current: sequence of fragments
  recordings,       \* Home.recordings: sequence of clips
  isRecording       \* Home.isRecording

playVars == <<mounted, audioContext, ctxCreated, audioSource, destination,
              routeSt, routeDev, destBefore, nextRoute, selectedOutput, pc, node,
              out, onended, notified, priorSource, stopToggle, stopDuring,
              nextPlay, audioSourceRef, isPlaying>>
recVars == <<pendingStarts, startsIssued, recSt, nextRec, fragCount,
             streamLive, mediaRecorderRef, audioChunks, recordings, isRecording>>
vars == <<playVars, recVars>>

\* ---- initial state: AudioPlayer constructor and Home's useState/useRef ----
InitPlayer ==
  /\ audioContext = FALSE
  /\ ctxCreated = 0
  /\ audioSource = 0
  /\ destination = 0

InitHomePlayback ==
  /\ selectedOutput = 0
  /\ audioSourceRef = 0
  /\ isPlaying = FALSE

InitPlatformPlayback ==
  /\ routeSt = [r \in RouteIds |-> "none"]
  /\ routeDev = [r \in RouteIds |-> 0]
  /\ destBefore = [r \in RouteIds |-> 0]
  /\ nextRoute = 1
  /\ pc = [i \in PlayIds |-> "idle"]
  /\ node = [i \in PlayIds |-> "none"]
  /\ out = [i \in PlayIds |-> -1]
  /\ onended = [i \in PlayIds |-> FALSE]
  /\ notified = [i \in PlayIds |-> 0]
  /\ priorSource = [i \in PlayIds |-> 0]
  /\ stopToggle = FALSE
  /\ stopDuring = [i \in PlayIds |-> FALSE]
  /\ nextPlay = 1

InitHomeRecording ==
  /\ pendingStarts = 0
  /\ startsIssued = 0
  /\ recSt = [r \in RecIds |-> "none"]
  /\ nextRec = 1
  /\ fragCount = [r \in RecIds |-> 0]
  /\ streamLive = [r \in RecIds |-> FALSE]
  /\ mediaRecorderRef = 0
  /\ audioChunks = << >>
  /\ recordings = << >>
  /\ isRecording = FALSE

Init ==
  /\ mounted = FALSE
  /\ InitPlayer
  /\ InitHomePlayback
  /\ InitPlatformPlayback
  /\ InitHomeRecording


\* =====================  AudioPlayer  =====================

\* AudioBufferSourceNode.stop() on node i (0 = no node): a playing node is
\* silenced at once and its "ended" event becomes pending; otherwise no effect.
SourceStop(nd, i) ==
  IF i # 0 /\ nd[i] = "playing" THEN [nd EXCEPT ![i] = "halted"] ELSE nd

\* playAudio, lines 43-45: stop the node this.audioSource refers to.
PreemptPrior_Skip(nd, src) == nd
PreemptPrior(nd, src) == SourceStop(nd, src)

\* playAudio, line 55: this.destination || this.audioContext.destination
ConnectTarget(dest) == IF dest # 0 THEN dest ELSE 0

\* init, line 17: if (!this.audioContext)
ContextAbsent_Always(ctx) == TRUE
ContextAbsent(ctx) == ~ctx

\* init(outputDeviceId) up to its await: create the context if absent
\* (construction may throw), then for a non-empty device id create a fresh
\* MediaStreamAudioDestinationNode, store it in this.destination, and begin
\* setSinkId on a new Audio element fed by its stream.
AudioPlayerInit(d) ==
  \E ok \in BOOLEAN :
    /\ ~ContextAbsent(audioContext) => ok
    /\ audioContext' = (audioContext \/ (ContextAbsent(audioContext) /\ ok))
    /\ ctxCreated' = IF ContextAbsent(audioContext) /\ ok
                       THEN ctxCreated + 1 ELSE ctxCreated
    /\ IF ok /\ d # 0
         THEN /\ nextRoute <= MaxRoutes
              /\ destination' = nextRoute
              /\ routeSt' = [routeSt EXCEPT ![nextRoute] = "binding"]
              /\ routeDev' = [routeDev EXCEPT ![nextRoute] = d]
              /\ destBefore' = [destBefore EXCEPT ![nextRoute] = destination]
              /\ nextRoute' = nextRoute + 1
         ELSE UNCHANGED <<destination, routeSt, routeDev, destBefore,
                         nextRoute>>

\* init resumes after setSinkId resolved: audio.play() - the route now
\* carries whatever reaches its destination node to device routeDev[r].
SetSinkIdResolve(r) ==
  /\ routeSt[r] = "binding"
  /\ routeSt' = [routeSt EXCEPT ![r] = "bound"]
  /\ UNCHANGED <<mounted, audioContext, ctxCreated, audioSource, destination,
                 routeDev, destBefore, nextRoute, selectedOutput, pc, node, out, onended,
                 notified, priorSource, stopDuring, nextPlay, audioSourceRef,
                 isPlaying>>
  /\ UNCHANGED stopToggle
  /\ UNCHANGED recVars

\* setSinkId rejected: init's catch logs and rethrows, initAudio's catch
\* logs.  audio.play() is never called; nothing set before the await is undone.
SetSinkIdReject(r) ==
  /\ routeSt[r] = "binding"
  /\ routeSt' = [routeSt EXCEPT ![r] = "failed"]
  /\ UNCHANGED <<mounted, audioContext, ctxCreated, audioSource, destination,
                 routeDev, destBefore, nextRoute, selectedOutput, pc, node, out, onended,
                 notified, priorSource, stopDuring, nextPlay, audioSourceRef,
                 isPlaying>>
  /\ UNCHANGED stopToggle
  /\ UNCHANGED recVars

\* Mutant of stopAudio: it halts every playing node.
StopAudio_HaltsAll ==
  /\ node' = [i \in PlayIds |-> IF node[i] = "playing" THEN "halted" ELSE node[i]]
  /\ audioSource' = 0

\* stopAudio(): if (this.audioSource) { stop(); this.audioSource = null }
StopAudio ==
  /\ node' = SourceStop(node, audioSource)
  /\ audioSource' = 0

\* =====================  Home: effects  =====================

\* First render: the initAudio effect runs audioPlayer.init("").
Mount ==
  /\ ~mounted
  /\ mounted' = TRUE
  /\ AudioPlayerInit(selectedOutput)
  /\ UNCHANGED <<audioSource, selectedOutput, pc, node, out, onended, notified,
                 priorSource, stopDuring, nextPlay, audioSourceRef, isPlaying>>
  /\ UNCHANGED stopToggle
  /\ UNCHANGED recVars

\* The output <select> changes to d (0 = "Default Output"): selectedOutput is
\* set and the initAudio effect runs audioPlayer.init(d).
SelectOutput(d) ==
  /\ mounted
  /\ d # selectedOutput
  /\ selectedOutput' = d
  /\ AudioPlayerInit(d)
  /\ UNCHANGED <<mounted, audioSource, pc, node, out, onended, notified,
                 priorSource, stopDuring, nextPlay, audioSourceRef, isPlaying>>
  /\ UNCHANGED stopToggle
  /\ UNCHANGED recVars

\* =====================  Home: playback handlers  =====================

\* The buttons that call handlePlayClick: u = 0 is "Play Audio"
\* ("/sample.mp3", disabled while isPlaying); u = k > 0 is
\* "Play Recording k" (recordings[k], never disabled).
PlayButtonEnabled(u) ==
  IF u = 0 THEN ~isPlaying ELSE u <= Len(recordings)

Pending(i) == pc[i] \in {"fetch", "arrayBuffer", "decode"}

\* playAudio, line 38: if (!this.audioContext) throw ...
ContextMissing_Never(ctx) == FALSE
ContextMissing(ctx) == ~ctx

\* handlePlayClick(url) up to the first await inside playAudio.
\* No context: playAudio throws before its try block and the handler's catch
\* sets isPlaying false.  Otherwise the node in this.audioSource is stopped
\* and the call suspends in fetch().
HandlePlayClick(u) ==
  /\ mounted
  /\ PlayButtonEnabled(u)
  /\ nextPlay <= MaxPlays
  /\ nextPlay' = nextPlay + 1
  /\ stopDuring' = [i \in PlayIds |-> FALSE]
  /\ IF ContextMissing(audioContext)
       THEN /\ pc' = [pc EXCEPT ![nextPlay] = "notInit"]
            /\ isPlaying' = FALSE
            /\ UNCHANGED <<node, priorSource>>
       ELSE /\ pc' = [pc EXCEPT ![nextPlay] = "fetch"]
            /\ priorSource' = [priorSource EXCEPT ![nextPlay] = audioSource]
            /\ node' = PreemptPrior(node, audioSource)
            /\ UNCHANGED isPlaying
  /\ UNCHANGED <<mounted, audioContext, ctxCreated, audioSource, destination,
                 routeSt, routeDev, destBefore, nextRoute, selectedOutput, out, onended,
                 notified, audioSourceRef>>
  /\ UNCHANGED stopToggle
  /\ UNCHANGED recVars

\* fetch(audioUrl) resolved: the call suspends in response.arrayBuffer().
FetchResolve(i) ==
  /\ pc[i] = "fetch"
  /\ pc' = [pc EXCEPT ![i] = "arrayBuffer"]
  /\ UNCHANGED <<mounted, audioContext, ctxCreated, audioSource, destination,
                 routeSt, routeDev, destBefore, nextRoute, selectedOutput, node, out,
                 onended, notified, priorSource, stopDuring, nextPlay,
                 audioSourceRef, isPlaying>>
  /\ UNCHANGED stopToggle
  /\ UNCHANGED recVars

\* arrayBuffer() resolved: the call suspends in decodeAudioData().
ArrayBufferResolve(i) ==
  /\ pc[i] = "arrayBuffer"
  /\ pc' = [pc EXCEPT ![i] = "decode"]
  /\ UNCHANGED <<mounted, audioContext, ctxCreated, audioSource, destination,
                 routeSt, routeDev, destBefore, nextRoute, selectedOutput, node, out,
                 onended, notified, priorSource, stopDuring, nextPlay,
                 audioSourceRef, isPlaying>>
  /\ UNCHANGED stopToggle
  /\ UNCHANGED recVars

\* handlePlayClick, line 122: source.onended = () => { ... }
InstallOnEnded_Skip(h, i) == h
InstallOnEnded(h, i) == [h EXCEPT ![i] = TRUE]

\* decodeAudioData resolved: playAudio creates the node, stores it in
\* this.audioSource, connects and starts it, and returns it; handlePlayClick
\* then stores it in audioSourceRef, sets isPlaying and installs onended.
\* All of this runs without a further suspension point.
DecodeResolve(i) ==
  /\ pc[i] = "decode"
  /\ pc' = [pc EXCEPT ![i] = "done"]
  /\ audioSource' = i
  /\ out' = [out EXCEPT ![i] = ConnectTarget(destination)]
  /\ node' = [node EXCEPT ![i] = "playing"]
  /\ audioSourceRef' = i
  /\ isPlaying' = TRUE
  /\ onended' = InstallOnEnded(onended, i)
  /\ UNCHANGED <<mounted, audioContext, ctxCreated, destination, routeSt,
                 routeDev, destBefore, nextRoute, selectedOutput, notified, priorSource,
                 stopDuring, nextPlay>>
  /\ UNCHANGED stopToggle
  /\ UNCHANGED recVars

\* fetch, arrayBuffer or decodeAudioData rejected: playAudio's catch logs
\* and rethrows; handlePlayClick's catch sets isPlaying false.
PlayFail(i) ==
  /\ Pending(i)
  /\ pc' = [pc EXCEPT ![i] = "failed"]
  /\ isPlaying' = FALSE
  /\ UNCHANGED <<mounted, audioContext, ctxCreated, audioSource, destination,
                 routeSt, routeDev, destBefore, nextRoute, selectedOutput, node, out,
                 onended, notified, priorSource, stopDuring, nextPlay,
                 audioSourceRef>>
  /\ UNCHANGED stopToggle
  /\ UNCHANGED recVars

\* The body of handleStopClick.
StopClickBody ==
  /\ stopToggle' = ~stopToggle
  /\ IF audioSourceRef # 0
       THEN /\ StopAudio
            /\ isPlaying' = FALSE
            /\ audioSourceRef' = 0
            /\ stopDuring' = [i \in PlayIds |-> Pending(i)]
       ELSE UNCHANGED <<node, audioSource, isPlaying, audioSourceRef,
                        stopDuring>>
  /\ UNCHANGED <<mounted, audioContext, ctxCreated, destination, routeSt,
                 routeDev, destBefore, nextRoute, selectedOutput, pc, out, onended,
                 notified, priorSource, nextPlay>>
  /\ UNCHANGED recVars

\* handleStopClick run by a click on "Stop Audio" (disabled unless isPlaying).
HandleStopClick ==
  /\ mounted
  /\ isPlaying
  /\ StopClickBody

\* handleStopClick called while the button shows as disabled: the session's
\* stop() requested by a caller that does not look at isPlaying.
StopRequest ==
  /\ mounted
  /\ ~isPlaying
  /\ StopClickBody

\* The buffer of a playing node has been played to its end.
NaturalEnd(i) ==
  /\ node[i] = "playing"
  /\ node' = [node EXCEPT ![i] = "finished"]
  /\ UNCHANGED <<mounted, audioContext, ctxCreated, audioSource, destination,
                 routeSt, routeDev, destBefore, nextRoute, selectedOutput, pc, out,
                 onended, notified, priorSource, stopDuring, nextPlay,
                 audioSourceRef, isPlaying>>
  /\ UNCHANGED stopToggle
  /\ UNCHANGED recVars

\* The "ended" event of node i is dispatched; if installed, the handler
\* source.onended runs: setIsPlaying(false); audioSourceRef.current = null.
EndedEvent(i) ==
  /\ node[i] \in {"halted", "finished"}
  /\ node' = [node EXCEPT ![i] =
                IF node[i] = "halted" THEN "endedHalted" ELSE "endedNatural"]
  /\ IF onended[i]
       THEN /\ notified' = [notified EXCEPT ![i] = @ + 1]
            /\ isPlaying' = FALSE
            /\ audioSourceRef' = 0
       ELSE UNCHANGED <<notified, isPlaying, audioSourceRef>>
  /\ UNCHANGED <<mounted, audioContext, ctxCreated, audioSource, destination,
                 routeSt, routeDev, destBefore, nextRoute, selectedOutput, pc, out,
                 onended, priorSource, stopDuring, nextPlay>>
  /\ UNCHANGED stopToggle
  /\ UNCHANGED recVars

\* =====================  Home: recording handlers  =====================

\* The k-th fragment delivered by recorder r's capture unit: a Blob holding
\* one block of samples, tagged with where it came from.
Fragment(r, k) == << <<r, k>> >>

\* new Blob(parts): the parts' contents concatenated in order.
RECURSIVE NewBlob(_)
NewBlob(parts) ==
  IF parts = << >> THEN << >> ELSE Head(parts) \o NewBlob(Tail(parts))

\* MediaRecorder.stop(): a recording recorder becomes inactive at once and
\* its final dataavailable + stop events become pending; otherwise no effect.
RecorderStop(st, r) ==
  IF r # 0 /\ st[r] = "recording" THEN [st EXCEPT ![r] = "stopping"] ELSE st

\* mediaRecorder.ondataavailable: audioChunksRef.current.push(event.data)
OnDataAvailable(chunks, data) == Append(chunks, data)

\* Mutant of onstop: the new clip is put in front of the list.
OnStop_Prepend(recs, chunks, r) ==
  <<[rec |-> r, data |-> NewBlob(chunks)]>> \o recs

\* mediaRecorder.onstop: blob of audioChunksRef.current, URL appended to
\* recordings.  A clip records the recorder whose onstop made it.
OnStop(recs, chunks, r) ==
  Append(recs, [rec |-> r, data |-> NewBlob(chunks)])

\* handleStartRecording up to its await ("Start Recording" is rendered only
\* while isRecording is false): the call suspends in getUserMedia.
HandleStartRecording ==
  /\ mounted
  /\ ~isRecording
  /\ startsIssued < MaxRecs
  /\ startsIssued' = startsIssued + 1
  /\ pendingStarts' = pendingStarts + 1
  /\ UNCHANGED <<recSt, nextRec, fragCount, mediaRecorderRef, audioChunks,
                 recordings, isRecording>>
  /\ UNCHANGED streamLive
  /\ UNCHANGED playVars

\* getUserMedia resolved with a live stream: a new MediaRecorder on it is
\* stored in mediaRecorderRef,
\* audioChunksRef is reset, the handlers are installed, the recorder is
\* started and isRecording is set.
GetUserMediaResolve ==
  /\ pendingStarts > 0
  /\ pendingStarts' = pendingStarts - 1
  /\ mediaRecorderRef' = nextRec
  /\ audioChunks' = << >>
  /\ recSt' = [recSt EXCEPT ![nextRec] = "recording"]
  /\ streamLive' = [streamLive EXCEPT ![nextRec] = TRUE]
  /\ nextRec' = nextRec + 1
  /\ isRecording' = TRUE
  /\ UNCHANGED <<startsIssued, fragCount, recordings>>
  /\ UNCHANGED playVars

\* catch of handleStartRecording: console.error only.
StartFailed_MarksRecording ==
  /\ isRecording' = TRUE
  /\ UNCHANGED <<recSt, nextRec, mediaRecorderRef, audioChunks, recordings>>
StartFailed ==
  UNCHANGED <<recSt, nextRec, mediaRecorderRef, audioChunks, recordings,
              isRecording>>

\* getUserMedia rejected (denied / no device): the await throws before any
\* statement of the try block after it has run, and the catch logs the error.
GetUserMediaReject ==
  /\ pendingStarts > 0
  /\ pendingStarts' = pendingStarts - 1
  /\ StartFailed
  /\ UNCHANGED <<startsIssued, fragCount>>
  /\ UNCHANGED streamLive
  /\ UNCHANGED playVars

\* handleStopRecording ("Stop Recording" is rendered only while isRecording).
\* Only the recorder is stopped; the stream's tracks are not touched.
StopRecordingBody_HaltsPlayback ==
  /\ IF mediaRecorderRef # 0
       THEN /\ recSt' = RecorderStop(recSt, mediaRecorderRef)
            /\ isRecording' = FALSE
       ELSE UNCHANGED <<recSt, isRecording>>
  /\ StopAudio
  /\ UNCHANGED <<mounted, audioContext, ctxCreated, destination, routeSt,
                 routeDev, destBefore, nextRoute, selectedOutput, pc, out,
                 onended, notified, priorSource, stopToggle, stopDuring,
                 nextPlay, audioSourceRef, isPlaying>>
\* Body of handleStopRecording: the recorder in mediaRecorderRef is stopped
\* and isRecording cleared; nothing of the AudioPlayer is referenced.
StopRecordingBody ==
  /\ IF mediaRecorderRef # 0
       THEN /\ recSt' = RecorderStop(recSt, mediaRecorderRef)
            /\ isRecording' = FALSE
       ELSE UNCHANGED <<recSt, isRecording>>
  /\ UNCHANGED playVars

HandleStopRecording ==
  /\ mounted
  /\ isRecording
  /\ StopRecordingBody
  /\ UNCHANGED <<pendingStarts, startsIssued, nextRec, fragCount,
                 mediaRecorderRef, audioChunks, recordings>>
  /\ UNCHANGED streamLive

\* Recorder r delivers a fragment while recording: ondataavailable runs.
DataAvailable(r) ==
  /\ recSt[r] = "recording"
  /\ fragCount[r] < MaxFrags
  /\ fragCount' = [fragCount EXCEPT ![r] = @ + 1]
  /\ audioChunks' = OnDataAvailable(audioChunks, Fragment(r, fragCount[r] + 1))
  /\ UNCHANGED <<pendingStarts, startsIssued, recSt, nextRec,
                 mediaRecorderRef, recordings, isRecording>>
  /\ UNCHANGED streamLive
  /\ UNCHANGED playVars

\* The task queued by recorder r's stop(): dataavailable with the remaining
\* data (ondataavailable runs), then stop (onstop runs).
RecorderFinalize(r) ==
  /\ recSt[r] = "stopping"
  /\ recSt' = [recSt EXCEPT ![r] = "inactive"]
  /\ fragCount' = [fragCount EXCEPT ![r] = @ + 1]
  /\ LET chunks == OnDataAvailable(audioChunks, Fragment(r, fragCount[r] + 1))
     IN  /\ audioChunks' = chunks
         /\ recordings' = OnStop(recordings, chunks, r)
  /\ UNCHANGED <<pendingStarts, startsIssued, nextRec, mediaRecorderRef,
                 isRecording>>
  /\ UNCHANGED streamLive
  /\ UNCHANGED playVars

\* =====================  specifications  =====================

NextRouting ==
  \/ \E d \in {0} \cup Devices : SelectOutput(d)
  \/ \E r \in RouteIds : SetSinkIdResolve(r)
  \/ \E r \in RouteIds : SetSinkIdReject(r)

NextPlayback ==
  \/ \E u \in 0..MaxRecs : HandlePlayClick(u)
  \/ \E i \in PlayIds : FetchResolve(i)
  \/ \E i \in PlayIds : ArrayBufferResolve(i)
  \/ \E i \in PlayIds : DecodeResolve(i)
  \/ \E i \in PlayIds : PlayFail(i)
  \/ HandleStopClick
  \/ \E i \in PlayIds : NaturalEnd(i)
  \/ \E i \in PlayIds : EndedEvent(i)

NextRecording ==
  \/ HandleStartRecording
  \/ GetUserMediaResolve
  \/ GetUserMediaReject
  \/ HandleStopRecording
  \/ \E r \in RecIds : DataAvailable(r)
  \/ \E r \in RecIds : RecorderFinalize(r)

Next == Mount \/ NextRouting \/ NextPlayback \/ NextRecording

\* The whole program.
Spec == Init /\ [][Next]_vars

\* The recording session alone: the playback session stays as mounted.
SpecRecording == Init /\ [][Mount \/ NextRecording]_vars

\* The recording session as the platform drives it for start() without a
\* timeslice: the only dataavailable event of a recorder is the one queued
\* by its stop().
NextRecordingStopOnly ==
  \/ HandleStartRecording
  \/ GetUserMediaResolve
  \/ GetUserMediaReject
  \/ HandleStopRecording
  \/ \E r \in RecIds : RecorderFinalize(r)

SpecRecordingStopOnly == Init /\ [][Mount \/ NextRecordingStopOnly]_vars

\* A quiescent state of Spec: Home is mounted, nothing has been played, and
\* either nothing has been recorded or one recording (its one fragment
\* delivered at stop) has been made and finalized.
OneRecordingDone ==
  /\ pendingStarts = 0
  /\ startsIssued = 1
  /\ recSt = [r \in RecIds |-> IF r = 1 THEN "inactive" ELSE "none"]
  /\ nextRec = 2
  /\ fragCount = [r \in RecIds |-> IF r = 1 THEN 1 ELSE 0]
  /\ streamLive = [r \in RecIds |-> r = 1]
  /\ mediaRecorderRef = 1
  /\ audioChunks = <<Fragment(1, 1)>>
  /\ recordings = <<[rec |-> 1, data |-> NewBlob(<<Fragment(1, 1)>>)]>>
  /\ isRecording = FALSE

InitPlayback ==
  /\ mounted = TRUE
  /\ audioContext \in BOOLEAN
  /\ ctxCreated = (IF audioContext THEN 1 ELSE 0)
  /\ audioSource = 0
  /\ destination = 0
  /\ InitHomePlayback
  /\ InitPlatformPlayback
  /\ (InitHomeRecording \/ OneRecordingDone)

\* Both sessions of one page together, from construction. The recorder is
\* driven as for start() without a timeslice: its fragment arrives in the
\* dataavailable event queued by stop().
SessionCalls == (nextPlay - 1) + (nextRoute - 1) + startsIssued

NextSession ==
  \/ Mount
  \/ \E d \in {0} \cup Devices :
       (d = 0 \/ SessionCalls < MaxSessionCalls) /\ SelectOutput(d)
  \/ \E r \in RouteIds : SetSinkIdResolve(r)
  \/ \E r \in RouteIds : SetSinkIdReject(r)
  \/ \E u \in 0..MaxRecs :
       SessionCalls < MaxSessionCalls /\ HandlePlayClick(u)
  \/ \E i \in PlayIds : FetchResolve(i)
  \/ \E i \in PlayIds : ArrayBufferResolve(i)
  \/ \E i \in PlayIds : DecodeResolve(i)
  \/ \E i \in PlayIds : PlayFail(i)
  \/ HandleStopClick
  \/ \E i \in PlayIds : NaturalEnd(i)
  \/ \E i \in PlayIds : EndedEvent(i)
  \/ SessionCalls < MaxSessionCalls /\ HandleStartRecording
  \/ GetUserMediaResolve
  \/ GetUserMediaReject
  \/ HandleStopRecording
  \/ \E r \in RecIds : RecorderFinalize(r)

SpecSession == Init /\ [][NextSession]_vars

\* Initialization alone: the mount effect and the output selections.
SpecInit == Init /\ [][Mount \/ NextRouting]_vars

\* Playing and stopping alone (the output selection is left as mounted),
\* started from a quiescent state of Spec.
SpecPlayback == InitPlayback /\ [][NextPlayback]_vars

\* Playing and stopping where stop() may also be requested while "Stop
\* Audio" is disabled (before any play, after a stop, after a failed play).
SpecPlaybackDirect == InitPlayback /\ [][NextPlayback \/ StopRequest]_vars

\* The playback session with output selection, from the same states.
NextRoutingPlayback ==
  \/ \E d \in {0} \cup Devices : SelectOutput(d)
  \/ \E r \in RouteIds : SetSinkIdResolve(r)
  \/ \E r \in RouteIds : SetSinkIdReject(r)
  \/ \E u \in 0..MaxRecs : nextPlay <= MaxRoutingPlays /\ HandlePlayClick(u)
  \/ \E i \in PlayIds : FetchResolve(i)
  \/ \E i \in PlayIds : ArrayBufferResolve(i)
  \/ \E i \in PlayIds : DecodeResolve(i)
  \/ \E i \in PlayIds : PlayFail(i)
  \/ HandleStopClick
  \/ \E i \in PlayIds : NaturalEnd(i)
  \/ \E i \in PlayIds : EndedEvent(i)

SpecRouting == InitPlayback /\ [][NextRoutingPlayback]_vars

\* =====================  playback claims  =====================

Audible == {i \in PlayIds : node[i] = "playing"}
Halted(i) == node[i] \in {"halted", "endedHalted"}
Settled(i) == pc[i] = "done"

\* C1: in every reachable state at most one sound unit that has been
\* started and neither halted nor completed exists.
C1_AtMostOneAudible == Cardinality(Audible) <= 1

\* C2: if stop() ran while play call i was suspended in fetch or decode and
\* no play() has been issued since, call i has not started a node.
C2_StopDuringPlayStaysSilent ==
  \A i \in PlayIds : stopDuring[i] => node[i] = "none"

\* C3: for consecutive calls play(a), play(b): in the step in which the
\* later of the two settles successfully, a's node is not audible and
\* this.audioSource is b's node.
C3_SecondPlayWins ==
  [][\A a \in PlayIds : \A b \in PlayIds :
       (b = a + 1 /\ Settled(a)' /\ Settled(b)' /\ ~(Settled(a) /\ Settled(b)))
         => (node'[a] # "playing" /\ audioSource' = b)]_vars

\* C4: the onended handler never runs for a node that was halted by stop()
\* (from stopAudio or from a later playAudio) before finishing on its own.
C4_NoCompletionForHalted ==
  \A i \in PlayIds : Halted(i) => notified[i] = 0

RouteActive(r) ==
  /\ routeSt[r] = "bound"
  /\ \/ destination = r
     \/ \E i \in Audible : out[i] = r

\* Sound is reaching device d through a route bound to it.
AudioReaches(d) ==
  \E i \in Audible :
    /\ out[i] \in RouteIds
    /\ routeSt[out[i]] = "bound"
    /\ routeDev[out[i]] = d

\* C6: when the init(deviceId) call that made route r has failed in setSinkId
\* and no later init(deviceId) call has been made, the target play() connects
\* to is the one from before that call - never the unbound route r.
C6_FailedBindKeepsTarget ==
  \A r \in RouteIds :
    (routeSt[r] = "failed" /\ nextRoute = r + 1)
      => (destination = destBefore[r] /\ destination # r)

\* C7: once device D was selected and initialized (route r1) and then D' was
\* selected and initialized (route r2), at most one route is active and no
\* sound reaches D.
C7_RouteFullyReplaced ==
  \A r1 \in RouteIds : \A r2 \in RouteIds :
    (/\ r1 < r2
     /\ routeSt[r1] = "bound"
     /\ routeSt[r2] = "bound"
     /\ routeDev[r1] # routeDev[r2]
     /\ destination = r2)
      => /\ Cardinality({r \in RouteIds : RouteActive(r)}) <= 1
         /\ ~AudioReaches(routeDev[r1])

\* =====================  recording claims  =====================

Capturing == {r \in RecIds : recSt[r] = "recording"}

\* What recorder r's capture unit has delivered, in arrival order.
Delivered(r) == [k \in 1..fragCount[r] |-> Fragment(r, k)]

\* C8: a start() that runs while isRecording is true creates no capture unit
\* and leaves the fragment buffer as it is.
C8_StartWhileRecordingIsNoOp ==
  [][(isRecording /\ pendingStarts' < pendingStarts)
       => (nextRec' = nextRec /\ recSt' = recSt /\ audioChunks' = audioChunks)]_vars

\* C9: in every reachable state at most one capture unit is capturing.
C9_AtMostOneCapturing == Cardinality(Capturing) <= 1

\* C10: every clip in recordings is the concatenation, in arrival order, of
\* exactly the fragments delivered by the capture unit it was finalized for.
C10_ClipIsOwnFragments ==
  \A k \in 1..Len(recordings) :
    recordings[k].data = NewBlob(Delivered(recordings[k].rec))

\* C11: once recorder r has been stopped and finalized, the microphone
\* stream its start() obtained has been released.
C11_StreamReleasedAfterStop ==
  \A r \in RecIds : recSt[r] = "inactive" => ~streamLive[r]

\* The handle the session holds that is actually sounding (0 = none): a
\* reference left in this.audioSource to a node that has finished or was
\* halted is not an active handle.
ActiveHandle ==
  IF audioSource # 0 /\ node[audioSource] = "playing" THEN audioSource ELSE 0

\* C12: a call of stop() made while the session has no active handle changes
\* neither the context, nor the output route, nor any node, and the session
\* still has no active handle after it.
C12_StopWhenIdleIsNoOp ==
  [][(stopToggle' # stopToggle /\ ActiveHandle = 0)
       => /\ audioContext' = audioContext
          /\ ctxCreated' = ctxCreated
          /\ destination' = destination
          /\ routeSt' = routeSt
          /\ node' = node
          /\ out' = out
          /\ ActiveHandle' = 0]_vars

\* C12 witness: the only play() issued so far has played to its end, and
\* stop() was called after that, before the ended event was dispatched (a
\* stop() while it was playing would have left it halted): stopAudio ran on
\* the reference left in this.audioSource and cleared it.
C12_Witness ==
  /\ stopToggle
  /\ nextPlay = 2
  /\ node[1] = "finished"
  /\ audioSource = 0

\* Recorder r's stop event is dispatched in this step.
Finalizes(r) == recSt[r] = "stopping" /\ recSt'[r] = "inactive"

\* C13: every step leaves recordings unchanged or appends exactly one clip at
\* its end; the step that finalizes a stopped recorder appends that
\* recorder's clip (whatever it captured), and no other step appends - so
\* there is one entry per stopped recording, in completion order.
C13_RecordingsAppendOnly ==
  [][/\ \/ recordings' = recordings
        \/ /\ Len(recordings') = Len(recordings) + 1
           /\ SubSeq(recordings', 1, Len(recordings)) = recordings
     /\ \A r \in RecIds :
          Finalizes(r) =>
            /\ Len(recordings') = Len(recordings) + 1
            /\ recordings'[Len(recordings')].rec = r
     /\ recordings' # recordings => \E r \in RecIds : Finalizes(r)]_vars

\* C13 witness: two recordings have been stopped and finalized, the second
\* without any fragment delivered while it was recording.
C13_Witness ==
  /\ Len(recordings) = 2
  /\ recordings[1].rec # recordings[2].rec
  /\ fragCount[recordings[2].rec] = 1

\* C14: a node that was started and played to its end without being halted
\* gets its onended handler run exactly once - never before its ended event,
\* once in the step that dispatches it, never again - and that step sets
\* isPlaying false without handleStopClick being called.
C14_NaturalCompletionOnce ==
  /\ [](\A i \in PlayIds :
          /\ notified[i] <= 1
          /\ node[i] \in {"playing", "finished"} => notified[i] = 0
          /\ node[i] = "endedNatural" => notified[i] = 1)
  /\ [][\A i \in PlayIds :
          (node[i] = "finished" /\ node'[i] = "endedNatural")
            => /\ notified'[i] = notified[i] + 1
               /\ ~isPlaying'
               /\ stopToggle' = stopToggle]_vars

\* C14 witness: one play() was issued, its node played to the end, the
\* handler has run, and isPlaying is false with this.audioSource still set
\* (stopAudio would have cleared it).
C14_Witness ==
  /\ nextPlay = 2
  /\ node[1] = "endedNatural"
  /\ notified[1] = 1
  /\ audioSource = 1
  /\ ~isPlaying

\* C15: a play() called while no audio context exists ends with the
\* not-initialized error at once: no fetch is issued, no node is stopped,
\* created, connected or started, this.audioSource and the context are left
\* as they are; the call never gets a node later either.
C15_PlayWithoutContextFails ==
  /\ [](\A i \in PlayIds : pc[i] = "notInit" => (node[i] = "none" /\ out[i] = -1))
  /\ [][(nextPlay' # nextPlay /\ ~audioContext)
          => /\ pc' = [pc EXCEPT ![nextPlay] = "notInit"]
             /\ node' = node
             /\ out' = out
             /\ audioSource' = audioSource
             /\ audioContext' = audioContext
             /\ priorSource' = priorSource]_vars

\* C15 witness: a play() has failed with the not-initialized error.
C15_Witness ==
  /\ ~audioContext
  /\ pc[1] = "notInit"

\* C16: over any sequence of init() calls at most one AudioContext is ever
\* constructed, and once the session has a context no step replaces or
\* drops it.
C16_ContextCreatedOnce ==
  /\ [](ctxCreated <= 1 /\ (audioContext <=> ctxCreated = 1))
  /\ [][audioContext => (audioContext' /\ ctxCreated' = ctxCreated)]_vars

\* C16 witness: the context exists and two init(deviceId) calls have been
\* made after it was created, the second while the first was still
\* suspended in setSinkId.
C16_Witness ==
  /\ audioContext
  /\ MaxRoutes >= 2
  /\ routeSt[1] = "binding"
  /\ routeSt[2] = "binding"

\* C17: a recording start that fails because getUserMedia rejects leaves the
\* recording state as it was: an idle session stays idle, no recorder is
\* created or stored, no stream is opened, and audioChunksRef and the
\* recordings list are not modified.
C17_FailedStartChangesNothing ==
  [][(pendingStarts' < pendingStarts /\ nextRec' = nextRec)
       => /\ isRecording' = isRecording
          /\ recSt' = recSt
          /\ mediaRecorderRef' = mediaRecorderRef
          /\ streamLive' = streamLive
          /\ audioChunks' = audioChunks
          /\ recordings' = recordings
          /\ (Capturing = {} => Capturing' = {})]_vars

\* C17 witness: after one finished recording a start was issued and has
\* settled without creating a second recorder, i.e. it was rejected, and the
\* first recording's fragments and clip are still in place.
C17_Witness ==
  /\ nextRec = 2
  /\ startsIssued = 2
  /\ pendingStarts = 0
  /\ ~isRecording
  /\ Len(audioChunks) > 0
  /\ Len(recordings) = 1

\* C18: the two sessions share no state. A step of the recording session
\* (start, its getUserMedia outcome, a fragment arriving, stop, the
\* recorder's final events) leaves the audio context, the output route and
\* the active playback handle unchanged; a step of the playback session
\* (init and its setSinkId outcome, play and its stages, stop, the ended
\* event) leaves the recorders, mediaRecorderRef, audioChunksRef and the
\* recordings list unchanged.
C18_SessionsShareNoState ==
  [][/\ recVars' # recVars
          => /\ audioContext' = audioContext
             /\ ctxCreated' = ctxCreated
             /\ destination' = destination
             /\ routeSt' = routeSt
             /\ routeDev' = routeDev
             /\ audioSource' = audioSource
             /\ node' = node
             /\ out' = out
     /\ playVars' # playVars
          => /\ recSt' = recSt
             /\ streamLive' = streamLive
             /\ mediaRecorderRef' = mediaRecorderRef
             /\ fragCount' = fragCount
             /\ audioChunks' = audioChunks
             /\ recordings' = recordings]_vars

\* C18 witness: a recording was started and stopped, its fragment arrived
\* and it was finalized, while a handle started by play() on a bound
\* device route is still playing.
C18_Witness ==
  /\ node[1] = "playing"
  /\ audioSource = 1
  /\ out[1] = 1
  /\ routeSt[1] = "bound"
  /\ recSt[1] = "inactive"
  /\ fragCount[1] = 1
  /\ Len(recordings) = 1

\* C19: whenever isPlaying is false and no play() call is suspended, no
\* started node is audible; and every audible node is the one held in
\* audioSourceRef, which is what handleStopClick can halt.
C19_SilentWhenNotPlaying ==
  /\ (~isPlaying /\ \A i \in PlayIds : ~Pending(i)) => Audible = {}
  /\ \A i \in Audible : audioSourceRef = i

\* C20: once a device route has been bound, the default output ("") has
\* then been selected and no init() call is still suspended, the target a
\* play() call would connect its node to is the context's default output,
\* not the earlier device route.
C20_DefaultSelectionRestoresDefault ==
  (/\ selectedOutput = 0
   /\ \E r \in RouteIds : routeSt[r] = "bound"
   /\ \A r \in RouteIds : routeSt[r] # "binding")
    => ConnectTarget(destination) = 0

====
